---- MODULE Spec2Model ----
(***************************************************************************)
(* Air Quality Monitor (src/main.py).                                      *)
(*                                                                         *)
(* get_air_quality(location) is a blocking, straight-line function: it     *)
(* calls geocode_location (one outbound GET), then issues one outbound GET *)
(* to the air-pollution endpoint, then returns a reading, returns an error *)
(* dict, or (on status 429) sleeps and falls off the end of the function.  *)
(* One invocation is one process of the model; its program counter stops   *)
(* at the points where the code blocks (the two GETs and time.sleep).      *)
(* The provider is the environment: its responses are drawn from small     *)
(* sets.  Python strings that the code parses (the Retry-After header) are *)
(* sequences of one-character strings, so that int() is computed.          *)
(***************************************************************************)
EXTENDS Integers, Sequences, FiniteSets, TLC

VARIABLES
    pc,         \* per invocation: where the invocation is blocked
    location,   \* per invocation: the argument of get_air_quality
    geoReq,     \* per invocation: the geocoding request sent (line 44-46)
    geoResp,    \* per invocation: the geocoding response received
    coords,     \* per invocation: the value geocode_location returned
    aqReq,      \* per invocation: the air-pollution request sent (line 88-91)
    aqResp,     \* per invocation: the air-pollution response received
    result,     \* per invocation: the value get_air_quality returned
    printed,    \* per invocation: the lines it wrote to standard output
    geoReqs,    \* per invocation: number of geocoding requests issued
    aqReqs,     \* per invocation: number of air-pollution requests issued
    waits,      \* per invocation: number of time.sleep calls made
    sleepFrom,  \* per invocation: the time at which time.sleep was called
    wakeAt,     \* per invocation: the earliest time at which time.sleep returns
    elapsed,    \* per invocation: the time it spent inside time.sleep
    now         \* the wall clock

vars == <<pc, location, geoReq, geoResp, coords, aqReq, aqResp, result, printed,
          geoReqs, aqReqs, waits, sleepFrom, wakeAt, elapsed, now>>

----------------------------------------------------------------------------
(* Bounds of the model.                                                    *)

\* The clock of the single-invocation specification stops here.
MaxTime == 12
\* The clock of the concurrent specification stops here.
MaxTimeConc == 3
\* Number of concurrent invocations in the concurrent specification.
NumConc == 2
\* The provider's categorical index ranges over (1 - AqiSlack)..(5 + AqiSlack).
AqiSlack == 2

\* The default of response.headers.get('Retry-After', 10).
DefaultRetryAfter == 10

----------------------------------------------------------------------------
(* Python values.                                                          *)

\* None.  Dicts are records, so None is a record no dict of the code equals.
PyNone == [py |-> "None"]

\* The tuple (a, b).  A record, as None is, so that the two compare.
Pair(a, b) == [fst |-> a, snd |-> b]

\* No value yet: the variable has not been assigned in this invocation.
Unset == [py |-> "unset"]

DigitChars == {"0", "1", "2", "3", "4", "5", "6", "7", "8", "9"}

DigitVal(c) ==
    CASE c = "0" -> 0 [] c = "1" -> 1 [] c = "2" -> 2 [] c = "3" -> 3
      [] c = "4" -> 4 [] c = "5" -> 5 [] c = "6" -> 6 [] c = "7" -> 7
      [] c = "8" -> 8 [] c = "9" -> 9

RECURSIVE DigitsVal(_)
DigitsVal(s) ==
    IF s = <<>> THEN 0
    ELSE 10 * DigitsVal(SubSeq(s, 1, Len(s) - 1)) + DigitVal(s[Len(s)])

\* int(s) of a str s: an optional sign followed by one or more decimal
\* digits; anything else raises ValueError (ok = FALSE).  (Surrounding
\* whitespace and underscores, which int() also accepts, are not among the
\* header values of the model.)
PyInt(s) ==
    LET signed == Len(s) > 0 /\ s[1] \in {"-", "+"}
        digits == IF signed THEN Tail(s) ELSE s
        ok     == Len(digits) > 0 /\ \A k \in 1..Len(digits) : digits[k] \in DigitChars
    IN  IF ~ok THEN [ok |-> FALSE, val |-> 0]
        ELSE [ok |-> TRUE,
              val |-> IF signed /\ s[1] = "-" THEN 0 - DigitsVal(digits)
                      ELSE DigitsVal(digits)]

----------------------------------------------------------------------------
(* The provider's responses.                                               *)

RetryAfterKey == "Retry-After"

NoHeaders == <<>>

RetryAfterHeader(s) == (RetryAfterKey :> s)

Response(status, body, headers) ==
    [status |-> status, body |-> body, headers |-> headers]

MessageBody == [message |-> "error"]

GeoBody(lat, lon) == [coord |-> [lat |-> lat, lon |-> lon]]

AqBody(aqi) == [list |-> << [main |-> [aqi |-> aqi]] >>]

EmptyListBody == [list |-> <<>>]

Locations == {"Kigali", "invalid-location-xyz"}

Lats == {-2, 48}

Lons == {2, 30}

AqiValues == (1 - AqiSlack)..(5 + AqiSlack)

GeoFailureStatuses == {401, 404, 500}

AqFailureStatuses == {401, 404, 500}

\* Values of the Retry-After header: "0", "2", "11", "-1", "soon".
RetryAfterValues ==
    { <<"0">>, <<"2">>, <<"1", "1">>, <<"-", "1">>, <<"s", "o", "o", "n">> }

GeoResponses ==
    { Response(200, GeoBody(lat, lon), NoHeaders) : lat \in Lats, lon \in Lons }
    \cup { Response(200, MessageBody, NoHeaders) }
    \cup { Response(s, MessageBody, NoHeaders) : s \in GeoFailureStatuses }

AqResponses ==
    { Response(200, AqBody(a), NoHeaders) : a \in AqiValues }
    \cup { Response(200, EmptyListBody, NoHeaders) }
    \cup { Response(429, MessageBody, RetryAfterHeader(s)) : s \in RetryAfterValues }
    \cup { Response(429, MessageBody, NoHeaders) }
    \cup { Response(s, MessageBody, NoHeaders) : s \in AqFailureStatuses }

\* The smaller input sets of the concurrent specification.  Its provider
\* geocodes a name to the same coordinates every time it succeeds, so that
\* invocations called with different names hold different coordinates.
ConcGeoResponses(loc) ==
    { Response(200, IF loc = "Kigali" THEN GeoBody(-2, 30) ELSE GeoBody(48, 2), NoHeaders),
      Response(404, MessageBody, NoHeaders) }

ConcAqResponses ==
    { Response(200, AqBody(3), NoHeaders), Response(500, MessageBody, NoHeaders) }
    \cup { Response(429, MessageBody, RetryAfterHeader(s)) : s \in { <<"1">>, <<"2">> } }

----------------------------------------------------------------------------
(* The code, as functions from what a call has in hand to what it does     *)
(* next.  A step is [op, arg, out]: op is "return" (arg the value),        *)
(* "request" (arg the air-pollution request), "sleep" (arg the seconds) or *)
(* "raise" (an uncaught exception); out is what was printed on the way.    *)

Return(v, out) == [op |-> "return", arg |-> v, out |-> out]

Request(r, out) == [op |-> "request", arg |-> r, out |-> out]

Sleep(secs, out) == [op |-> "sleep", arg |-> secs, out |-> out]

Raise(out) == [op |-> "raise", arg |-> PyNone, out |-> out]

\* print(lat, lon)
CoordsLine(lat, lon) == [coords |-> <<lat, lon>>]

\* print(f"Rate limit reached. Retrying in {retry_after} seconds...")
RateLimitLine(secs) == [rate_limit |-> secs]

\* data["coord"]["lat"], data["coord"]["lon"] raise KeyError on a body
\* without them.
HasCoord(body) ==
    /\ "coord" \in DOMAIN body
    /\ "lat" \in DOMAIN body.coord
    /\ "lon" \in DOMAIN body.coord

\* Mutant of geocode_location: only status 404 counts as a failure.
geocode_location_only404(response) ==
    IF response.status # 404
    THEN IF HasCoord(response.body)
         THEN Return(Pair(response.body.coord.lat, response.body.coord.lon),
                     << CoordsLine(response.body.coord.lat, response.body.coord.lon) >>)
         ELSE Raise(<<>>)
    ELSE Return(PyNone, <<>>)

\* geocode_location, from the response of its GET on.
geocode_location(response) ==
    IF response.status = 200
    THEN IF HasCoord(response.body)
         THEN Return(Pair(response.body.coord.lat, response.body.coord.lon),
                     << CoordsLine(response.body.coord.lat, response.body.coord.lon) >>)
         ELSE Raise(<<>>)
    ELSE Return(PyNone, <<>>)

\* Mutant of get_health_advisory: the last comparison is aqi >= 5.
get_health_advisory_ge5(aqi) ==
    IF aqi = 1 THEN "Good: Air quality is satisfactory."
    ELSE IF aqi = 2 THEN "Moderate: Air quality is acceptable."
    ELSE IF aqi = 3
    THEN "Unhealthy for Sensitive Groups: Some members may experience health effects."
    ELSE IF aqi = 4 THEN "Unhealthy: Everyone may experience health effects."
    ELSE IF aqi >= 5 THEN "Very Unhealthy: Health alert for everyone."
    ELSE "Hazardous: Health warning of emergency conditions."

get_health_advisory(aqi) ==
    IF aqi = 1 THEN "Good: Air quality is satisfactory."
    ELSE IF aqi = 2 THEN "Moderate: Air quality is acceptable."
    ELSE IF aqi = 3
    THEN "Unhealthy for Sensitive Groups: Some members may experience health effects."
    ELSE IF aqi = 4 THEN "Unhealthy: Everyone may experience health effects."
    ELSE IF aqi = 5 THEN "Very Unhealthy: Health alert for everyone."
    ELSE "Hazardous: Health warning of emergency conditions."

\* Mutant of AfterGeocode: no early return when coords is None.
AfterGeocode_noCheck(loc, c) ==
    IF c = PyNone
    THEN Request([lat |-> 0, lon |-> 0], <<>>)
    ELSE Request([lat |-> c.fst, lon |-> c.snd], <<>>)

\* get_air_quality between the return of geocode_location and its own GET.
AfterGeocode(loc, c) ==
    IF c = PyNone
    THEN Return([error |-> "Could not fetch location coordinates. Please check the location name."],
                <<>>)
    ELSE Request([lat |-> c.fst, lon |-> c.snd], <<>>)

\* data["list"][0]["main"]["aqi"] raises IndexError or KeyError on a body
\* without it.
HasAqi(body) ==
    /\ "list" \in DOMAIN body
    /\ Len(body.list) > 0
    /\ "main" \in DOMAIN body.list[1]
    /\ "aqi" \in DOMAIN body.list[1].main

\* Mutant of Reading: the advisory is looked up one level too low.
Reading_advisoryOffByOne(loc, aqi) ==
    [location |-> loc, aqi |-> aqi, advisory |-> get_health_advisory(aqi - 1)]

\* Mutant of Reading: the index is clamped into 1..5 before it is returned.
Reading_clamped(loc, aqi) ==
    LET a == IF aqi < 1 THEN 1 ELSE IF aqi > 5 THEN 5 ELSE aqi
    IN  [location |-> loc, aqi |-> a, advisory |-> get_health_advisory(a)]

\* The dict built on the success branch.
Reading(loc, aqi) ==
    [location |-> loc, aqi |-> aqi, advisory |-> get_health_advisory(aqi)]

\* Mutant of IsRateLimit: every status from 429 up is a rate limit.
IsRateLimit_from429(status) == status >= 429

IsRateLimit(status) == status = 429

\* Mutant of retry_after: the default is 1.
retry_after_default1(headers) ==
    IF RetryAfterKey \in DOMAIN headers
    THEN PyInt(headers[RetryAfterKey])
    ELSE [ok |-> TRUE, val |-> 1]

\* int(response.headers.get('Retry-After', 10))
retry_after(headers) ==
    IF RetryAfterKey \in DOMAIN headers
    THEN PyInt(headers[RetryAfterKey])
    ELSE [ok |-> TRUE, val |-> DefaultRetryAfter]

\* get_air_quality from the response of its GET on.
OnAirResponse(loc, response) ==
    IF response.status = 200
    THEN IF HasAqi(response.body)
         THEN Return(Reading(loc, response.body.list[1].main.aqi), <<>>)
         ELSE Raise(<<>>)
    ELSE IF IsRateLimit(response.status)
    THEN LET ra == retry_after(response.headers)
         IN  IF ~ra.ok THEN Raise(<<>>)
             \* time.sleep raises ValueError on a negative length
             ELSE IF ra.val < 0 THEN Raise(<< RateLimitLine(ra.val) >>)
             ELSE Sleep(ra.val, << RateLimitLine(ra.val) >>)
    ELSE Return([error |-> "Could not fetch air quality data."], <<>>)

\* Mutant of AfterSleep: the request is sent again after the wait.
AfterSleep_retry(loc, c) == Request([lat |-> c.fst, lon |-> c.snd], <<>>)

\* get_air_quality after time.sleep, with its locals location and coords in
\* hand: the end of the function, which returns None.
AfterSleep(loc, c) == Return(PyNone, <<>>)

\* Mutant of LocalCoords: the coordinates are kept in one module-level
\* variable, which holds those of some invocation that resolved its location.
LocalCoords_shared(i) ==
    LET resolved == {j \in DOMAIN coords : coords[j] \notin {Unset, PyNone}}
    IN  IF resolved = {} THEN coords[i] ELSE coords[CHOOSE j \in resolved : TRUE]

\* The local variable coords of invocation i.
LocalCoords(i) == coords[i]

\* Mutant of WakeTime: the sleeps of all invocations are taken in turn.
WakeTime_serial(i, t, secs) ==
    LET others == {wakeAt[j] : j \in {k \in DOMAIN pc : k # i /\ pc[k] = "sleeping"}}
        from   == IF \E w \in others : w > t
                  THEN CHOOSE w \in others : \A v \in others : v <= w
                  ELSE t
    IN  from + secs

\* time.sleep(secs) called at time t returns no earlier than this.
WakeTime(i, t, secs) == t + secs

----------------------------------------------------------------------------
(* The state machine.                                                      *)

Invocations == DOMAIN pc

InitOf(n) ==
    /\ pc = [i \in 1..n |-> "idle"]
    /\ location = [i \in 1..n |-> ""]
    /\ geoReq = [i \in 1..n |-> Unset]
    /\ geoResp = [i \in 1..n |-> Unset]
    /\ coords = [i \in 1..n |-> Unset]
    /\ aqReq = [i \in 1..n |-> Unset]
    /\ aqResp = [i \in 1..n |-> Unset]
    /\ result = [i \in 1..n |-> Unset]
    /\ printed = [i \in 1..n |-> <<>>]
    /\ geoReqs = [i \in 1..n |-> 0]
    /\ aqReqs = [i \in 1..n |-> 0]
    /\ waits = [i \in 1..n |-> 0]
    /\ sleepFrom = [i \in 1..n |-> 0]
    /\ wakeAt = [i \in 1..n |-> 0]
    /\ elapsed = [i \in 1..n |-> 0]
    /\ now = 0

Init == InitOf(1)

InitConc == InitOf(NumConc)

\* Invocation i carries out a step of get_air_quality, having printed pre.
Continue(i, step, pre) ==
    /\ printed' = [printed EXCEPT ![i] = @ \o pre \o step.out]
    /\ CASE step.op = "return" ->
              /\ pc' = [pc EXCEPT ![i] = "done"]
              /\ result' = [result EXCEPT ![i] = step.arg]
              /\ UNCHANGED <<aqReq, aqReqs, waits, sleepFrom, wakeAt>>
         [] step.op = "request" ->
              /\ pc' = [pc EXCEPT ![i] = "aqi_wait"]
              /\ aqReq' = [aqReq EXCEPT ![i] = step.arg]
              /\ aqReqs' = [aqReqs EXCEPT ![i] = @ + 1]
              /\ UNCHANGED <<result, waits, sleepFrom, wakeAt>>
         [] step.op = "sleep" ->
              /\ pc' = [pc EXCEPT ![i] = "sleeping"]
              /\ waits' = [waits EXCEPT ![i] = @ + 1]
              /\ sleepFrom' = [sleepFrom EXCEPT ![i] = now]
              /\ wakeAt' = [wakeAt EXCEPT ![i] = WakeTime(i, now, step.arg)]
              /\ UNCHANGED <<result, aqReq, aqReqs>>
         [] step.op = "raise" ->
              /\ pc' = [pc EXCEPT ![i] = "raised"]
              /\ UNCHANGED <<result, aqReq, aqReqs, waits, sleepFrom, wakeAt>>

\* get_air_quality(loc) is called: geocode_location sends its GET.
Call(i, loc) ==
    /\ pc[i] = "idle"
    /\ pc' = [pc EXCEPT ![i] = "geocode_wait"]
    /\ location' = [location EXCEPT ![i] = loc]
    /\ geoReq' = [geoReq EXCEPT ![i] = [q |-> loc]]
    /\ geoReqs' = [geoReqs EXCEPT ![i] = @ + 1]
    /\ UNCHANGED <<geoResp, coords, aqReq, aqResp, result, printed, aqReqs, waits,
                   sleepFrom, wakeAt, elapsed, now>>

\* The geocoding response arrives: geocode_location returns (or raises), and
\* get_air_quality goes on to its early return or to its own GET.
GeocodeRecv(i, response) ==
    /\ pc[i] = "geocode_wait"
    /\ geoResp' = [geoResp EXCEPT ![i] = response]
    /\ LET g == geocode_location(response)
       IN  IF g.op = "raise"
           THEN /\ coords' = coords
                /\ Continue(i, g, <<>>)
           ELSE /\ coords' = [coords EXCEPT ![i] = g.arg]
                /\ Continue(i, AfterGeocode(location[i], LocalCoords(i)'), g.out)
    /\ UNCHANGED <<location, geoReq, aqResp, geoReqs, elapsed, now>>

\* The air-pollution response arrives.
AqRecv(i, response) ==
    /\ pc[i] = "aqi_wait"
    /\ aqResp' = [aqResp EXCEPT ![i] = response]
    /\ Continue(i, OnAirResponse(location[i], response), <<>>)
    /\ UNCHANGED <<location, geoReq, geoResp, coords, geoReqs, elapsed, now>>

\* requests.get raises (connection refused, ...): nothing catches it.
NetworkError(i) ==
    /\ pc[i] \in {"geocode_wait", "aqi_wait"}
    /\ Continue(i, Raise(<<>>), <<>>)
    /\ UNCHANGED <<location, geoReq, geoResp, coords, aqResp, geoReqs, elapsed, now>>

\* time.sleep returns, no earlier than asked.
SleepReturn(i) ==
    /\ pc[i] = "sleeping"
    /\ now >= wakeAt[i]
    /\ elapsed' = [elapsed EXCEPT ![i] = now - sleepFrom[i]]
    /\ Continue(i, AfterSleep(location[i], LocalCoords(i)), <<>>)
    /\ UNCHANGED <<location, geoReq, geoResp, coords, aqResp, geoReqs, now>>

\* Time passes.
Tick(bound) ==
    /\ now < bound
    /\ now' = now + 1
    /\ UNCHANGED <<pc, location, geoReq, geoResp, coords, aqReq, aqResp, result,
                   printed, geoReqs, aqReqs, waits, sleepFrom, wakeAt, elapsed>>

Next ==
    \/ \E i \in Invocations, loc \in Locations : Call(i, loc)
    \/ \E i \in Invocations, response \in GeoResponses : GeocodeRecv(i, response)
    \/ \E i \in Invocations, response \in AqResponses : AqRecv(i, response)
    \/ \E i \in Invocations : NetworkError(i)
    \/ \E i \in Invocations : SleepReturn(i)
    \/ Tick(MaxTime)

NextConc ==
    \/ \E i \in Invocations, loc \in Locations : Call(i, loc)
    \/ \E i \in Invocations : \E response \in ConcGeoResponses(location[i]) :
            GeocodeRecv(i, response)
    \/ \E i \in Invocations, response \in ConcAqResponses : AqRecv(i, response)
    \/ \E i \in Invocations : NetworkError(i)
    \/ \E i \in Invocations : SleepReturn(i)
    \/ Tick(MaxTimeConc)

Spec == Init /\ [][Next]_vars

SpecConc == InitConc /\ [][NextConc]_vars

----------------------------------------------------------------------------
(* What the claims are stated with.                                        *)

\* The advisory table of the specification (section 4.3).
AdvisoryTable(a) ==
    CASE a = 1 -> "Good: Air quality is satisfactory."
      [] a = 2 -> "Moderate: Air quality is acceptable."
      [] a = 3 -> "Unhealthy for Sensitive Groups: Some members may experience health effects."
      [] a = 4 -> "Unhealthy: Everyone may experience health effects."
      [] a = 5 -> "Very Unhealthy: Health alert for everyone."
      [] OTHER -> "Hazardous: Health warning of emergency conditions."

NotFoundError ==
    [error |-> "Could not fetch location coordinates. Please check the location name."]

ProviderError == [error |-> "Could not fetch air quality data."]

IsReading(v) == DOMAIN v = {"location", "aqi", "advisory"}

IsError(v) == DOMAIN v = {"error"}

Returned(i) == pc[i] = "done"

GeoStatusIs(i, ok) ==
    /\ geoResp[i] # Unset
    /\ (geoResp[i].status = 200) = ok

AqStatusIn(i, S) ==
    /\ aqResp[i] # Unset
    /\ aqResp[i].status \in S

\* The provider's categorical index in the response invocation i received.
ProviderAqi(i) == aqResp[i].body.list[1].main.aqi

\* The duration a Retry-After header of the model asks for, and 10 when the
\* header is absent.
RetryAfterAsked(headers) ==
    IF RetryAfterKey \in DOMAIN headers
    THEN CASE headers[RetryAfterKey] = <<"0">> -> 0
           [] headers[RetryAfterKey] = <<"1">> -> 1
           [] headers[RetryAfterKey] = <<"2">> -> 2
           [] headers[RetryAfterKey] = <<"1", "1">> -> 11
           [] OTHER -> 0
    ELSE 10

\* C1: get_health_advisory returns the string of the table for 1..5 and the
\* "Hazardous" string for every other integer, and the advisory of every
\* reading returned is the table's string for the provider's index.
C1_AdvisoryTable ==
    /\ \A a \in AqiValues : get_health_advisory(a) = AdvisoryTable(a)
    /\ \A i \in Invocations :
          (Returned(i) /\ IsReading(result[i])) =>
              result[i].advisory = AdvisoryTable(ProviderAqi(i))

C1_Witness ==
    \E i \in Invocations :
        /\ Returned(i)
        /\ IsReading(result[i])
        /\ ProviderAqi(i) \notin 1..5
        /\ result[i].advisory = "Hazardous: Health warning of emergency conditions."

\* C2: a get_air_quality call that returns yields a reading or an error
\* value, never anything else.
C2_ReturnsReadingOrError ==
    \A i \in Invocations :
        Returned(i) => (IsReading(result[i]) \/ IsError(result[i]))

\* C3: when geocode_location returns not-found, get_air_quality returns the
\* coordinates error at once, with no air-pollution request and no wait; an
\* air-pollution request is issued only after a successful geocoding
\* response of the same invocation.
C3_NotFoundReturnsAtOnce ==
    \A i \in Invocations :
        /\ coords[i] = PyNone =>
              /\ Returned(i)
              /\ result[i] = NotFoundError
              /\ aqReqs[i] = 0
              /\ aqReq[i] = Unset
              /\ waits[i] = 0
        /\ aqReqs[i] > 0 => GeoStatusIs(i, TRUE)

C3_Witness ==
    \E i \in Invocations :
        /\ GeoStatusIs(i, FALSE)
        /\ coords[i] = PyNone
        /\ result[i] = NotFoundError

\* C4: when geocoding succeeds and the air-pollution response is a success
\* carrying the index a, get_air_quality returns exactly the caller's
\* location, a, and get_health_advisory(a).
C4_SuccessReading ==
    \A i \in Invocations :
        (AqStatusIn(i, {200}) /\ HasAqi(aqResp[i].body)) =>
            /\ Returned(i)
            /\ GeoStatusIs(i, TRUE)
            /\ result[i] = [location |-> location[i],
                            aqi |-> ProviderAqi(i),
                            advisory |-> get_health_advisory(ProviderAqi(i))]

C4_Witness ==
    \E i \in Invocations :
        /\ AqStatusIn(i, {200})
        /\ result[i] =
             [location |-> "Kigali", aqi |-> 3,
              advisory |-> "Unhealthy for Sensitive Groups: Some members may experience health effects."]

\* C5: when the air-pollution response has a status that is neither success
\* nor 429, get_air_quality returns the air-quality error without waiting
\* and without a further request.
C5_OtherStatusError ==
    \A i \in Invocations :
        (aqResp[i] # Unset /\ aqResp[i].status \notin {200, 429}) =>
            /\ Returned(i)
            /\ result[i] = ProviderError
            /\ waits[i] = 0
            /\ elapsed[i] = 0
            /\ aqReqs[i] = 1
            /\ geoReqs[i] = 1

C5_Witness ==
    \E i \in Invocations :
        /\ AqStatusIn(i, {500})
        /\ Returned(i)
        /\ result[i] = ProviderError

\* C6: on status 429 get_air_quality does not return before it has waited
\* for the Retry-After duration (10 when the header is absent), and it waits
\* on no other path.
C6_WaitsRetryAfter ==
    \A i \in Invocations :
        /\ (Returned(i) /\ AqStatusIn(i, {429})) =>
              /\ waits[i] = 1
              /\ elapsed[i] >= RetryAfterAsked(aqResp[i].headers)
        /\ waits[i] > 0 => AqStatusIn(i, {429})
        /\ (Returned(i) /\ ~AqStatusIn(i, {429})) => elapsed[i] = 0

C6_Witness ==
    \E i \in Invocations :
        /\ Returned(i)
        /\ AqStatusIn(i, {429})
        /\ RetryAfterKey \notin DOMAIN aqResp[i].headers
        /\ elapsed[i] = 10

C8_GeocodeContract ==
    \A i \in Invocations :
        /\ pc[i] # "idle" => geoReqs[i] = 1
        /\ GeoStatusIs(i, FALSE) =>
              /\ coords[i] = PyNone
              /\ printed[i] = <<>>
        /\ (GeoStatusIs(i, TRUE) /\ HasCoord(geoResp[i].body)) =>
              /\ coords[i] = Pair(geoResp[i].body.coord.lat, geoResp[i].body.coord.lon)
              /\ printed[i] # <<>>
              /\ printed[i][1] = [coords |-> <<coords[i].fst, coords[i].snd>>]
        /\ coords[i] \notin {Unset, PyNone} => GeoStatusIs(i, TRUE)

C8_Witness ==
    \E i \in Invocations :
        /\ location[i] = "invalid-location-xyz"
        /\ GeoStatusIs(i, FALSE)
        /\ geoReqs[i] = 1
        /\ coords[i] = PyNone

\* C9, as claimed: every reading returned has its aqi in 1..5, whatever
\* index the provider's response carries.
C9_AqiInRange ==
    \A i \in Invocations :
        (Returned(i) /\ IsReading(result[i])) => result[i].aqi \in 1..5

\* C9, amended: every reading returned carries the provider's index
\* unchanged, so its aqi is in 1..5 exactly when the provider's index is; an
\* index outside 1..5 is returned as it is, with the "Hazardous" advisory.
C9_AqiIsProviderIndex ==
    \A i \in Invocations :
        (Returned(i) /\ IsReading(result[i])) =>
            /\ result[i].aqi = ProviderAqi(i)
            /\ (result[i].aqi \in 1..5) = (ProviderAqi(i) \in 1..5)
            /\ result[i].aqi \notin 1..5 =>
                  result[i].advisory = "Hazardous: Health warning of emergency conditions."

C9_Witness ==
    \E i \in Invocations :
        /\ Returned(i)
        /\ IsReading(result[i])
        /\ ProviderAqi(i) = 6
        /\ result[i].aqi = 6

\* What invocation i returns, as a function of its own argument and of the
\* responses to its own requests.
OwnOutcome(i) ==
    IF GeoStatusIs(i, FALSE) THEN NotFoundError
    ELSE IF AqStatusIn(i, {200})
    THEN [location |-> location[i], aqi |-> ProviderAqi(i),
          advisory |-> AdvisoryTable(ProviderAqi(i))]
    ELSE IF AqStatusIn(i, {429}) THEN PyNone
    ELSE ProviderError

\* C10: concurrent invocations share no state: the coordinates an invocation
\* sends are those of its own geocoding response, its result is a function
\* of its own location and responses, and a rate-limited invocation waits
\* from its own call of time.sleep for its own Retry-After duration,
\* whatever the others do.
C10_Independent ==
    \A i \in Invocations :
        /\ aqReq[i] # Unset =>
              /\ GeoStatusIs(i, TRUE)
              /\ aqReq[i] = [lat |-> geoResp[i].body.coord.lat,
                             lon |-> geoResp[i].body.coord.lon]
        /\ Returned(i) => result[i] = OwnOutcome(i)
        /\ waits[i] > 0 =>
              /\ AqStatusIn(i, {429})
              /\ wakeAt[i] = sleepFrom[i] + RetryAfterAsked(aqResp[i].headers)
        /\ (Returned(i) /\ waits[i] > 0) =>
              elapsed[i] >= RetryAfterAsked(aqResp[i].headers)
        /\ waits[i] = 0 => elapsed[i] = 0

C10_Witness ==
    \E i, j \in Invocations :
        /\ i # j
        /\ Returned(i) /\ Returned(j)
        /\ location[i] # location[j]
        /\ aqReq[i] # aqReq[j]
        /\ waits[i] = 1 /\ waits[j] = 1
        /\ sleepFrom[i] = sleepFrom[j]
        /\ elapsed[i] = 1
        /\ elapsed[j] = 2
        /\ result[i] = PyNone /\ result[j] = PyNone

====
